---------------------------- MODULE Spec2Model ----------------------------
(***************************************************************************)
(* A model of ved (paul-rodriguez/ved): the streaming search-and-replace   *)
(* engine made of the tee stream splitter (src/src/teereader/mod.rs), the  *)
(* bounded scanner BufSearcher (src/src/replacer/bufsearcher.rs), the      *)
(* DiffHeap (src/src/replacer/diffheap.rs) and the Replacer with its       *)
(* driving loop replace_stream (src/src/replacer/mod.rs).                  *)
(*                                                                         *)
(* Five specifications share the variables:                                *)
(*   Spec        replace_stream: BufSearcher on tee cursor 0, Replacer on  *)
(*               tee cursor 1, output collected in rep.out;                *)
(*   SearchSpec  a BufSearcher drained by repeated next() calls over a     *)
(*               plain reader (as in the tests of bufsearcher.rs);         *)
(*   TeeSpec     the two cursors of tee() driven by any interleaving of    *)
(*               read, seek and drop, each operation in one step;          *)
(*   LockSpec    the same operations run by two threads, with the taking   *)
(*               and the release of the tee's Mutex as steps of their own; *)
(*   GlobSpec    replace_glob: one thread per entry of the glob, each      *)
(*               running replace_path on its file, joined in spawn order.  *)
(*                                                                         *)
(* Bytes are their u8 values.  SEARCH_MAX and COLUMN_MAX keep the names of *)
(* the source's constants, scaled down (4096 and 120 in the source) so     *)
(* that streams longer than the scan buffer can be enumerated.             *)
(***************************************************************************)
EXTENDS Integers, Sequences, FiniteSets, TLC

\* Capacity of the scan buffer (bufsearcher.rs:7, 4096 there).
SEARCH_MAX == 5

\* Column bound of block patterns (bufsearcher.rs:10, 120 there).
COLUMN_MAX == 1

\* '\n' as u8 (bufsearcher.rs:88 and :161).
NL == 10

\* Longest stream drawn for Spec and SearchSpec.
MaxLen == 7

\* Longest gap between the two capacity-long occurrences (Spec).
MaxGap == 2

\* Most entries a glob enumerates (GlobSpec).
MaxEntries == 2

\* Longest stream drawn for TeeSpec.
MaxTeeLen == 3

\* Largest caller buffer handed to a tee read, largest seek distance (TeeSpec).
MaxBuf == 2

\* Size of the copy buffer of io::copy (std, 8192 there).
CopyBuf == 2

Alphabet == {97, 98, NL}

RECURSIVE SeqsUpTo(_, _)
\* All sequences over S of length at most n.
SeqsUpTo(S, n) ==
  IF n = 0 THEN {<< >>}
  ELSE LET shorter == SeqsUpTo(S, n - 1)
       IN  shorter \cup {Append(s, b) : s \in {t \in shorter : Len(t) = n - 1}, b \in S}

Min(a, b) == IF a < b THEN a ELSE b

\* The replacement string shared by all parts (bufsearcher.rs:17): "xy".
Replacement == <<120, 121>>

\* A pattern as long as the scan buffer ("X" repeated SEARCH_MAX times in
\* test_replace_max_pattern_len).
CapPattern == [i \in 1..SEARCH_MAX |-> 97]

\* The pattern sequences drawn: "a", "ab", "aa", and the blocks [a,a], [a,a,a].
SinglePatterns == {<< <<97>> >>, << <<97, 98>> >>, << <<97, 97>> >>}

BlockPatterns == {<< <<97>>, <<97>> >>, << <<97>>, <<97>>, <<97>> >>}

\* A pattern one byte longer than the scan buffer.
LongPattern == [i \in 1..(SEARCH_MAX + 1) |-> 97]

VARIABLES
  src,        \* the bytes of the underlying source
  patterns,   \* the pattern sequence (a sequence of byte strings)
  fullReads,  \* TRUE: the source fills every read up to the end of the stream
  srcpos,     \* number of bytes the underlying reader has returned
  tee,        \* Shared of teereader: buffer, global_offset, pos, active
  bs,         \* BufSearcher: pos, buf, read_head, drop_head, last_line_start, ready
  rep,        \* Replacer: pos, and the bytes written to the output
  cur,        \* the Diff the Replacer holds between diffs.next() and its use
  emitted,    \* the Diffs yielded by BufSearcher::next so far, in order
  groups,     \* the heaps read_diffs returned so far, one per matched group
  pc,         \* position of the driving loop
  outs,       \* TeeSpec: per cursor, the bytes its reads returned (until its
              \* first seek), whether it has sought, whether its last read
              \* returned 0
  last,       \* TeeSpec: the last operation and its cursor
  lock,       \* LockSpec: the Mutex around Shared: the cursor whose operation
              \* holds the guard, the operation, and whether it is inside a
              \* read of the underlying source
  paths,      \* GlobSpec: the entries the glob enumerates, in order
  units,      \* GlobSpec: per entry, the thread spawned for it
  disk,       \* GlobSpec: per entry, the file at its path and at its temp path
  dispatch    \* GlobSpec: the thread that runs replace_glob

pipevars == <<src, patterns, fullReads, srcpos, tee, bs, rep, cur, emitted, groups, pc, outs, last, lock>>

globvars == <<paths, units, disk, dispatch>>

vars == <<src, patterns, fullReads, srcpos, tee, bs, rep, cur, emitted, groups, pc, outs, last, lock,
          paths, units, disk, dispatch>>

-----------------------------------------------------------------------------
(* teereader/mod.rs *)

\* tee(): the shared state behind both cursors.
TeeInit ==
  [buffer |-> << >>, global_offset |-> 0,
   pos |-> [i \in 0..1 |-> 0], active |-> [i \in 0..1 |-> TRUE]]

\* A cleanup that never drains the buffer.
cleanup_keep(t) == t

\* TeeReader::cleanup: drop the prefix every live cursor has passed.
cleanup(t) ==
  LET min_pos == IF t.active[0] /\ t.active[1] THEN Min(t.pos[0], t.pos[1])
                 ELSE IF t.active[0] THEN t.pos[0]
                 ELSE IF t.active[1] THEN t.pos[1]
                 ELSE t.global_offset + Len(t.buffer)
      remove_count == IF min_pos > t.global_offset THEN min_pos - t.global_offset ELSE 0
  IN  IF remove_count > 0
      THEN [t EXCEPT !.buffer = SubSeq(@, remove_count + 1, Len(@)),
                     !.global_offset = @ + remove_count]
      ELSE t

\* The sizes the underlying reader may return for a read of want bytes.
ReadSizes(want, sp) ==
  LET avail == Min(want, Len(src) - sp)
  IN  IF avail <= 0 THEN {0}
      ELSE IF fullReads THEN {avail}
      ELSE 1..avail

\* An index that forgets the offset of the buffer's front.
relative_index_absolute(t, id) == t.pos[id]

\* The index in the buffer of cursor id's position (my_pos - start_pos).
relative_index(t, id) == t.pos[id] - t.global_offset

\* TeeReader::read on cursor id with a caller buffer of len bytes; n is the
\* number of bytes the underlying reader returns if it is asked.
TeeRead(t, sp, id, len, n) ==
  LET buffer_len == Len(t.buffer)
      relative_idx == relative_index(t, id)
  IN  IF relative_idx < buffer_len
      THEN LET to_read == Min(len, buffer_len - relative_idx)
           IN  [tee |-> cleanup([t EXCEPT !.pos[id] = @ + to_read]),
                srcpos |-> sp,
                data |-> SubSeq(t.buffer, relative_idx + 1, relative_idx + to_read)]
      ELSE LET data == SubSeq(src, sp + 1, sp + n)
           IN  [tee |-> cleanup(IF n > 0
                                THEN [t EXCEPT !.buffer = @ \o data, !.pos[id] = @ + n]
                                ELSE t),
                srcpos |-> sp + n,
                data |-> data]

\* TeeReader::seek(SeekFrom::Current(n)), n >= 0: advance inside the buffer,
\* then read the rest from the source (whatever the chunks, until n bytes are
\* skipped or the source ends) and keep it for the sibling.
TeeSeekForward(t, sp, id, n) ==
  LET buffer_len == Len(t.buffer)
      relative_idx == relative_index(t, id)
      in_buffer == IF relative_idx < buffer_len
                   THEN Min(n, buffer_len - relative_idx) ELSE 0
      remaining == n - in_buffer
      fromSrc == Min(remaining, Len(src) - sp)
      t1 == [t EXCEPT !.pos[id] = @ + in_buffer + fromSrc,
                      !.buffer = @ \o SubSeq(src, sp + 1, sp + fromSrc)]
  IN  [tee |-> cleanup(t1), srcpos |-> sp + fromSrc]

\* A seek that takes every relative distance, backward ones too.
seek_supported_any_distance(whence, n) == whence = "Current"

\* The arm of TeeReader::seek that does the seek: SeekFrom::Current(n) if n >= 0.
seek_supported(whence, n) == whence = "Current" /\ n >= 0

\* A release that leaves the cleanup to the next operation.
TeeDrop_without_cleanup(t, id) == [t EXCEPT !.active[id] = FALSE]

\* Drop for TeeReader.
TeeDrop(t, id) == cleanup([t EXCEPT !.active[id] = FALSE])

-----------------------------------------------------------------------------
(* replacer/diff.rs, replacer/diffheap.rs *)

\* The order of a BinaryHeap<Diff> without the Reverse wrapper: largest first.
DiffLess_reversed(d, e) == e.pos < d.pos \/ (d.pos = e.pos /\ e.remove < d.remove)

\* The derived Ord of Diff: by pos, then remove (add is the same string for
\* every Diff of a run).
DiffLess(d, e) == d.pos < e.pos \/ (d.pos = e.pos /\ d.remove < e.remove)

\* DiffHeap::push.  The heap is kept as the sequence of its Diffs in the
\* order pop would return them.
push(heap, d) ==
  LET k == Cardinality({i \in 1..Len(heap) : ~DiffLess(d, heap[i])})
  IN  SubSeq(heap, 1, k) \o <<d>> \o SubSeq(heap, k + 1, Len(heap))

RECURSIVE merge_with(_, _)
\* DiffHeap::merge_with: every Diff of other joins the heap.
merge_with(heap, other) ==
  IF other = << >> THEN heap
  ELSE merge_with(push(heap, Head(other)), Tail(other))

-----------------------------------------------------------------------------
(* replacer/bufsearcher.rs *)

BufIdx == 0..(SEARCH_MAX - 1)

\* BufSearcher::new
BufSearcherNew ==
  [pos |-> 0, buf |-> [i \in BufIdx |-> 0], read_head |-> 0, drop_head |-> 0,
   last_line_start |-> 0, ready |-> << >>]

RECURSIVE SumLen(_)
SumLen(ps) == IF ps = << >> THEN 0 ELSE Len(Head(ps)) + SumLen(Tail(ps))

minimum_match_length == SumLen(patterns) + (Len(patterns) - 1)

maximum_match_length == SumLen(patterns) + (Len(patterns) - 1) * COLUMN_MAX

\* A compaction that forgets to advance pos.
compress_buffer_keep_pos(b) ==
  LET remaining_bytes == b.read_head - b.drop_head
  IN  [b EXCEPT !.buf = [i \in BufIdx |-> IF i < remaining_bytes
                                           THEN b.buf[b.drop_head + i]
                                           ELSE b.buf[i]],
                !.drop_head = 0,
                !.read_head = remaining_bytes]

\* BufSearcher::compress_buffer: move [drop_head, read_head) to the front.
\* The bytes behind the moved ones keep their old values.
compress_buffer(b) ==
  LET remaining_bytes == b.read_head - b.drop_head
  IN  [b EXCEPT !.buf = [i \in BufIdx |-> IF i < remaining_bytes
                                           THEN b.buf[b.drop_head + i]
                                           ELSE b.buf[i]],
                !.pos = @ + b.drop_head,
                !.drop_head = 0,
                !.read_head = remaining_bytes]

\* fill_buffer, its condition: fewer bytes buffered than a match may span.
fill_needed(b) == maximum_match_length > b.read_head - b.drop_head

\* fill_buffer before its read: compact when the missing bytes would not fit.
fill_prepare(b) ==
  LET remaining_bytes == b.read_head - b.drop_head
      missing_bytes == maximum_match_length - remaining_bytes
  IN  IF b.read_head + missing_bytes >= SEARCH_MAX THEN compress_buffer(b) ELSE b

\* A fill that sets read_head to the number of bytes read.
fill_store_assign(b, data) ==
  [b EXCEPT !.buf = [i \in BufIdx |-> IF i >= b.read_head /\ i < b.read_head + Len(data)
                                       THEN data[i - b.read_head + 1]
                                       ELSE b.buf[i]],
            !.read_head = Len(data)]

\* fill_buffer after its read: the reader wrote data at buf[read_head..].
fill_store(b, data) ==
  [b EXCEPT !.buf = [i \in BufIdx |-> IF i >= b.read_head /\ i < b.read_head + Len(data)
                                       THEN data[i - b.read_head + 1]
                                       ELSE b.buf[i]],
            !.read_head = @ + Len(data)]

\* drop indexes buf[drop_head] for each dropped byte: out of bounds (a panic)
\* when the scan position would pass the end of the array.
drop_panics(b, nb_drop) == b.drop_head + nb_drop > SEARCH_MAX

\* A drop that counts every byte as a column, newlines too.
drop_without_reset(b, nb_drop) ==
  [b EXCEPT !.last_line_start = @ + nb_drop, !.drop_head = @ + nb_drop]

RECURSIVE drop(_, _)
\* BufSearcher::drop: advance the scan position, tracking the column.
drop(b, nb_drop) ==
  IF nb_drop = 0 THEN b
  ELSE drop([b EXCEPT !.last_line_start = IF b.buf[b.drop_head] = NL THEN 0 ELSE @ + 1,
                      !.drop_head = @ + 1],
            nb_drop - 1)

\* BufSearcher::next_line_offset; None is -1.  The scan runs over the whole
\* array, whatever read_head is.
next_line_offset(b, start_offset) ==
  LET hits == {i \in start_offset..(SEARCH_MAX - 1) : b.buf[i] = NL}
  IN  IF hits = {} THEN -1
      ELSE (CHOOSE i \in hits : \A j \in hits : i <= j) - start_offset + 1

\* BufSearcher::match_one_pattern.  The slice buf[slice_start..slice_end]
\* panics when it leaves the array.
match_one_pattern(b, offset, pattern) ==
  LET slice_start == b.drop_head + offset
      slice_end == b.drop_head + offset + Len(pattern)
  IN  IF slice_end > SEARCH_MAX THEN [kind |-> "panic"]
      ELSE IF \A i \in 1..Len(pattern) : b.buf[slice_start + i - 1] = pattern[i]
      THEN [kind |-> "some",
            diff |-> [pos |-> b.pos + slice_start, remove |-> Len(pattern),
                      add |-> Replacement],
            line_offset |-> b.last_line_start]
      ELSE [kind |-> "none"]

\* The start of the search for the newline that ends the previous part's line.
newline_search_start(b, buf_offset, previous_match_len) ==
  b.drop_head + previous_match_len

\* A match that settles for the parts found so far.
match_rest_partial(b, i, buf_offset, previous_match_len, line_offset, result) ==
  [kind |-> "some", diffs |-> result]

RECURSIVE match_rest(_, _, _, _, _, _)
\* The loop of match_buffer over the parts after the first.
match_rest(b, i, buf_offset, previous_match_len, line_offset, result) ==
  IF i > Len(patterns) THEN [kind |-> "some", diffs |-> result]
  ELSE LET nlo == next_line_offset(b, newline_search_start(b, buf_offset, previous_match_len))
       IN  IF nlo = -1 THEN [kind |-> "none"]
           ELSE LET off == buf_offset + previous_match_len + nlo + line_offset
                    mat == match_one_pattern(b, off, patterns[i])
                IN  IF mat.kind # "some" THEN [kind |-> mat.kind]
                    ELSE match_rest(b, i + 1, off, mat.diff.remove, line_offset,
                                    push(result, mat.diff))

\* BufSearcher::match_buffer
match_buffer(b) ==
  LET first_match == match_one_pattern(b, 0, patterns[1])
  IN  IF first_match.kind # "some" THEN [kind |-> first_match.kind]
      ELSE match_rest(b, 2, 0, first_match.diff.remove, first_match.line_offset,
                      push(<< >>, first_match.diff))

\* A scan that moves on by one byte after a match, as after a miss.
match_advance_one == Min(1, Len(patterns[1]))

\* The number of bytes dropped after a full match (read_diffs).
match_advance == Len(patterns[1])

\* One iteration of the loop of read_diffs on the searcher b, after the
\* reader returned data to fill_buffer (no data when fill_buffer did not read).
\*   "eof"    fewer than minimum_match_length bytes are buffered: Ok(None)
\*   "panic"  an index left the array
\*   "miss"   no match here, one byte dropped
\*   "hit"    read_diffs returned the heap of a match; next_diff merged it
\*            into ready and popped d
scan_outcome(b, data) ==
  LET b1 == IF fill_needed(b) THEN fill_store(fill_prepare(b), data) ELSE b
      remaining_bytes == b1.read_head - b1.drop_head
  IN  IF minimum_match_length > remaining_bytes THEN [kind |-> "eof", bs |-> b1]
      ELSE LET m == match_buffer(b1)
           IN  IF m.kind = "panic" THEN [kind |-> "panic", bs |-> b1]
               ELSE IF m.kind = "none"
               THEN IF drop_panics(b1, 1) THEN [kind |-> "panic", bs |-> b1]
                    ELSE [kind |-> "miss", bs |-> drop(b1, 1)]
               ELSE IF drop_panics(b1, match_advance) THEN [kind |-> "panic", bs |-> b1]
               ELSE LET b2 == drop(b1, match_advance)
                        merged == merge_with(b2.ready, m.diffs)
                    IN  [kind |-> "hit", d |-> Head(merged), group |-> m.diffs,
                         bs |-> [b2 EXCEPT !.ready = Tail(merged)]]

-----------------------------------------------------------------------------
(* replacer/mod.rs: Replacer *)

RECURSIVE read_exact(_, _, _, _, _)
\* Read::read_exact on tee cursor id: read until need bytes are gathered; a
\* read of 0 bytes before that is the error UnexpectedEof.  The underlying
\* reader is taken to fill each request (the result does not depend on it).
read_exact(t, sp, id, need, acc) ==
  IF need = 0 THEN [ok |-> TRUE, tee |-> t, srcpos |-> sp, data |-> acc]
  ELSE LET r == TeeRead(t, sp, id, need, Min(need, Len(src) - sp))
       IN  IF Len(r.data) = 0
           THEN [ok |-> FALSE, tee |-> r.tee, srcpos |-> r.srcpos, data |-> acc]
           ELSE read_exact(r.tee, r.srcpos, id, need - Len(r.data), acc \o r.data)

RECURSIVE copy_remaining(_, _, _, _)
\* Replacer::copy_remaining: io::copy reads cursor id in chunks of CopyBuf
\* bytes until a read returns 0.
copy_remaining(t, sp, id, acc) ==
  LET r == TeeRead(t, sp, id, CopyBuf, Min(CopyBuf, Len(src) - sp))
  IN  IF Len(r.data) = 0 THEN [tee |-> r.tee, srcpos |-> r.srcpos, data |-> acc]
      ELSE copy_remaining(r.tee, r.srcpos, id, acc \o r.data)

\* The length of the untouched span copied before a replacement
\* (replace_next_diff: diff.pos - self.pos).
gap_length(diff, r) == diff.pos - r.pos

\* A replacement that forgets the bytes it skipped.
pos_after_replacement_unmoved(p, diff) == p

\* produce_replacement: self.pos += diff.remove.
pos_after_replacement(p, diff) == p + diff.remove

\* The Some(Ok(diff)) branch of replace_next_diff: copy_from_original, then
\* produce_replacement.  diff.pos - self.pos is an unsigned subtraction: when
\* it would be negative the step does not complete (an overflow panic, or a
\* wrapped length no allocation or read can serve).
apply_diff(t, sp, r, diff) ==
  LET nb_bytes == gap_length(diff, r)
  IN  IF nb_bytes < 0 THEN [kind |-> "panic", tee |-> t, srcpos |-> sp, rep |-> r]
      ELSE LET g == read_exact(t, sp, 1, nb_bytes, << >>)
           IN  IF ~g.ok THEN [kind |-> "err", tee |-> g.tee, srcpos |-> g.srcpos, rep |-> r]
               ELSE LET r1 == [pos |-> r.pos + nb_bytes, out |-> r.out \o g.data]
                        k == read_exact(g.tee, g.srcpos, 1, diff.remove, << >>)
                    IN  IF ~k.ok
                        THEN [kind |-> "err", tee |-> k.tee, srcpos |-> k.srcpos, rep |-> r1]
                        ELSE [kind |-> "ok", tee |-> k.tee, srcpos |-> k.srcpos,
                              rep |-> [pos |-> pos_after_replacement(r1.pos, diff),
                                       out |-> r1.out \o diff.add]]

\* A driving loop that hands every error of the Replacer to its caller.
replace_stream_return_any(signal) == signal

\* The loop of replace_stream: Err(EndOfIteration) breaks it and the call
\* returns Ok(()) ("done"); any other error is returned.
replace_stream_return(signal) == IF signal = "EndOfIteration" THEN "done" ELSE signal

NoDiff == [pos |-> 0, remove |-> 0, add |-> << >>]

NoOp == [id |-> 0, op |-> "none"]

-----------------------------------------------------------------------------
(* The inputs *)

\* "unrelated bytes": a non-empty gap without the pattern's byte.
Gaps == SeqsUpTo({98, NL}, MaxGap) \ {<< >>}

CapStreams == {CapPattern \o g \o CapPattern : g \in Gaps}

Streams == SeqsUpTo(Alphabet, MaxLen)

\* The Mutex around Shared with no guard alive.
Unlocked == [holder |-> 0 - 1, op |-> "none", arg |-> 0, in_source |-> FALSE]

Idle ==
  /\ srcpos = 0
  /\ tee = TeeInit
  /\ bs = BufSearcherNew
  /\ rep = [pos |-> 0, out |-> << >>]
  /\ cur = NoDiff
  /\ emitted = << >>
  /\ groups = << >>
  /\ outs = [i \in 0..1 |-> [bytes |-> << >>, sought |-> FALSE, hitEnd |-> FALSE]]
  /\ last = NoOp
  /\ lock = Unlocked

\* replace_glob has not been called.
NoDispatch ==
  [phase |-> "none", pattern_ok |-> TRUE, spawned |-> 0, results |-> << >>,
   value |-> "none", finished |-> << >>]

GlobIdle ==
  /\ paths = << >>
  /\ units = << >>
  /\ disk = << >>
  /\ dispatch = NoDispatch

-----------------------------------------------------------------------------
(* Spec: replace_stream (replacer/mod.rs:81-101) *)

Init ==
  /\ \/ patterns \in SinglePatterns \cup BlockPatterns /\ src \in Streams
     \/ patterns = <<CapPattern>> /\ src \in CapStreams
  /\ fullReads = TRUE
  /\ pc = "next"
  /\ Idle
  /\ GlobIdle

\* One iteration of read_diffs inside diffs.next(), called by
\* replace_next_diff; the searcher reads tee cursor 0.
ScanStep ==
  /\ pc = "next"
  /\ bs.ready = << >>
  /\ LET b0 == IF fill_needed(bs) THEN fill_prepare(bs) ELSE bs
         want == SEARCH_MAX - b0.read_head
     IN  \E n \in ReadSizes(want, srcpos) :
           LET r == IF fill_needed(bs) THEN TeeRead(tee, srcpos, 0, want, n)
                    ELSE [tee |-> tee, srcpos |-> srcpos, data |-> << >>]
               o == scan_outcome(bs, r.data)
           IN  /\ tee' = r.tee
               /\ srcpos' = r.srcpos
               /\ bs' = o.bs
               /\ pc' = CASE o.kind = "eof" -> "remaining"
                          [] o.kind = "panic" -> "panic"
                          [] o.kind = "miss" -> "next"
                          [] o.kind = "hit" -> "apply"
               /\ cur' = IF o.kind = "hit" THEN o.d ELSE cur
               /\ emitted' = IF o.kind = "hit" THEN Append(emitted, o.d) ELSE emitted
               /\ groups' = IF o.kind = "hit" THEN Append(groups, o.group) ELSE groups
  /\ UNCHANGED <<globvars, lock, src, patterns, fullReads, rep, outs, last>>

\* diffs.next() when the ready heap holds a Diff: next_diff pops it.
PopReady ==
  /\ pc = "next"
  /\ bs.ready # << >>
  /\ cur' = Head(bs.ready)
  /\ emitted' = Append(emitted, Head(bs.ready))
  /\ bs' = [bs EXCEPT !.ready = Tail(@)]
  /\ pc' = "apply"
  /\ UNCHANGED <<globvars, lock, src, patterns, fullReads, srcpos, tee, rep, groups, outs, last>>

\* replace_next_diff with Some(Ok(diff)): the Replacer reads tee cursor 1.
ApplyDiff ==
  /\ pc = "apply"
  /\ LET a == apply_diff(tee, srcpos, rep, cur)
     IN  /\ tee' = a.tee
         /\ srcpos' = a.srcpos
         /\ rep' = a.rep
         /\ pc' = IF a.kind = "ok" THEN "next" ELSE a.kind
  /\ UNCHANGED <<globvars, lock, src, patterns, fullReads, bs, cur, emitted, groups, outs, last>>

\* replace_next_diff with None: copy_remaining, then EndOfIteration, which
\* replace_stream turns into Ok(()).
CopyRemaining ==
  /\ pc = "remaining"
  /\ LET c == copy_remaining(tee, srcpos, 1, << >>)
     IN  /\ tee' = c.tee
         /\ srcpos' = c.srcpos
         /\ rep' = [rep EXCEPT !.out = @ \o c.data]
  /\ pc' = replace_stream_return("EndOfIteration")
  /\ UNCHANGED <<globvars, lock, src, patterns, fullReads, bs, cur, emitted, groups, outs, last>>

Next == ScanStep \/ PopReady \/ ApplyDiff \/ CopyRemaining

Spec == Init /\ [][Next]_vars

-----------------------------------------------------------------------------
(* SearchSpec: a BufSearcher over a plain reader, drained by next() *)

SearchInit ==
  /\ patterns \in SinglePatterns \cup BlockPatterns \cup {<<LongPattern>>}
  /\ src \in Streams
  /\ fullReads \in BOOLEAN
  /\ pc = "next"
  /\ Idle
  /\ GlobIdle

\* One iteration of read_diffs inside next(); the reader is the source itself.
SearchStep ==
  /\ pc = "next"
  /\ bs.ready = << >>
  /\ LET b0 == IF fill_needed(bs) THEN fill_prepare(bs) ELSE bs
         want == SEARCH_MAX - b0.read_head
     IN  \E n \in (IF fill_needed(bs) THEN ReadSizes(want, srcpos) ELSE {0}) :
           LET o == scan_outcome(bs, SubSeq(src, srcpos + 1, srcpos + n))
           IN  /\ srcpos' = srcpos + n
               /\ bs' = o.bs
               /\ pc' = CASE o.kind = "eof" -> "end"
                          [] o.kind = "panic" -> "panic"
                          [] o.kind = "miss" -> "next"
                          [] o.kind = "hit" -> "next"
               /\ emitted' = IF o.kind = "hit" THEN Append(emitted, o.d) ELSE emitted
               /\ groups' = IF o.kind = "hit" THEN Append(groups, o.group) ELSE groups
  /\ UNCHANGED <<globvars, lock, src, patterns, fullReads, tee, rep, cur, outs, last>>

\* next() when the ready heap holds a Diff.
SearchPop ==
  /\ pc = "next"
  /\ bs.ready # << >>
  /\ emitted' = Append(emitted, Head(bs.ready))
  /\ bs' = [bs EXCEPT !.ready = Tail(@)]
  /\ UNCHANGED <<globvars, lock, src, patterns, fullReads, srcpos, tee, rep, cur, groups, pc, outs, last>>

SearchNext == SearchStep \/ SearchPop

SearchSpec == SearchInit /\ [][SearchNext]_vars

-----------------------------------------------------------------------------
(* TeeSpec: the two cursors of tee() under any interleaving *)

TeeSpecInit ==
  /\ src \in SeqsUpTo({97, 98}, MaxTeeLen)
  /\ patterns = << <<97>> >>
  /\ fullReads = FALSE
  /\ pc = "tee"
  /\ Idle
  /\ GlobIdle

\* cursor id reads into a buffer of len bytes.
TeeReadStep(id, len) ==
  /\ pc = "tee"
  /\ tee.active[id]
  /\ \E n \in ReadSizes(len, srcpos) :
       LET r == TeeRead(tee, srcpos, id, len, n)
       IN  /\ tee' = r.tee
           /\ srcpos' = r.srcpos
           /\ outs' = [outs EXCEPT ![id].bytes = IF outs[id].sought THEN @ ELSE @ \o r.data,
                                   ![id].hitEnd = (Len(r.data) = 0)]
           /\ last' = [id |-> id, op |-> "read"]
  /\ UNCHANGED <<globvars, lock, src, patterns, fullReads, bs, rep, cur, emitted, groups, pc>>

\* cursor id seeks: only SeekFrom::Current(n) with n >= 0 is supported, any
\* other request returns an Unsupported error before touching the state.
TeeSeekStep(id, whence, n) ==
  /\ pc = "tee"
  /\ tee.active[id]
  /\ IF seek_supported(whence, n)
     THEN LET r == TeeSeekForward(tee, srcpos, id, n)
          IN  /\ tee' = r.tee
              /\ srcpos' = r.srcpos
              /\ outs' = [outs EXCEPT ![id].sought = TRUE]
              /\ last' = [id |-> id, op |-> "seek"]
     ELSE /\ last' = [id |-> id, op |-> "seek_unsupported"]
          /\ UNCHANGED <<tee, srcpos, outs>>
  /\ UNCHANGED <<globvars, lock, src, patterns, fullReads, bs, rep, cur, emitted, groups, pc>>

\* cursor id is dropped.
TeeDropStep(id) ==
  /\ pc = "tee"
  /\ tee.active[id]
  /\ tee' = TeeDrop(tee, id)
  /\ last' = [id |-> id, op |-> "drop"]
  /\ UNCHANGED <<globvars, lock, src, patterns, fullReads, srcpos, bs, rep, cur, emitted, groups, pc, outs>>

TeeNext ==
  \E id \in 0..1 :
    \/ \E len \in 1..MaxBuf : TeeReadStep(id, len)
    \/ \E n \in (0 - 1)..MaxBuf : TeeSeekStep(id, "Current", n)
    \/ \E whence \in {"Start", "End"} : TeeSeekStep(id, whence, 0)
    \/ TeeDropStep(id)

TeeSpec == TeeSpecInit /\ [][TeeNext]_vars

-----------------------------------------------------------------------------
(* The tee's Mutex, with each cursor driven by a thread of its own: an      *)
(* operation takes the guard on entry, may call the underlying reader       *)
(* through the guard, and gives the guard back when it returns.             *)

\* The operation op(arg) of cursor id reaches a state.reader.read call: a read
\* with nothing buffered for the cursor, a supported seek that goes past the
\* buffered bytes.
calls_source(t, id, op, arg) ==
  LET buffer_len == Len(t.buffer)
      relative_idx == relative_index(t, id)
      in_buffer == IF relative_idx < buffer_len
                   THEN Min(arg, buffer_len - relative_idx) ELSE 0
  IN  \/ op = "read" /\ ~(relative_idx < buffer_len)
      \/ op = "seek" /\ seek_supported("Current", arg) /\ arg - in_buffer > 0

LockInit ==
  /\ src \in SeqsUpTo({97, 98}, MaxTeeLen)
  /\ patterns = << <<97>> >>
  /\ fullReads = FALSE
  /\ pc = "lock"
  /\ Idle
  /\ GlobIdle

\* self.shared.lock(): cursor id enters read, seek or drop and gets the guard.
LockAcquire(id, op, arg) ==
  /\ pc = "lock"
  /\ tee.active[id]
  /\ lock.holder = 0 - 1
  /\ lock' = [holder |-> id, op |-> op, arg |-> arg, in_source |-> FALSE]
  /\ UNCHANGED <<globvars, src, patterns, fullReads, srcpos, tee, bs, rep, cur,
                 emitted, groups, pc, outs, last>>

\* state.reader.read(..) is called through the guard and has not returned.
LockSourceRead(id) ==
  /\ pc = "lock"
  /\ lock.holder = id
  /\ ~lock.in_source
  /\ calls_source(tee, id, lock.op, lock.arg)
  /\ lock' = [lock EXCEPT !.in_source = TRUE]
  /\ UNCHANGED <<globvars, src, patterns, fullReads, srcpos, tee, bs, rep, cur,
                 emitted, groups, pc, outs, last>>

\* The operation finishes (the source's read, if any, has returned), runs
\* cleanup and returns: the guard goes out of scope.
LockRelease(id) ==
  /\ pc = "lock"
  /\ lock.holder = id
  /\ calls_source(tee, id, lock.op, lock.arg) => lock.in_source
  /\ \/ /\ lock.op = "read"
        /\ \E n \in ReadSizes(lock.arg, srcpos) :
             LET r == TeeRead(tee, srcpos, id, lock.arg, n)
             IN  tee' = r.tee /\ srcpos' = r.srcpos
        /\ last' = [id |-> id, op |-> "read"]
     \/ /\ lock.op = "seek"
        /\ IF seek_supported("Current", lock.arg)
           THEN LET r == TeeSeekForward(tee, srcpos, id, lock.arg)
                IN  /\ tee' = r.tee
                    /\ srcpos' = r.srcpos
                    /\ last' = [id |-> id, op |-> "seek"]
           ELSE /\ last' = [id |-> id, op |-> "seek_unsupported"]
                /\ UNCHANGED <<tee, srcpos>>
     \/ /\ lock.op = "drop"
        /\ tee' = TeeDrop(tee, id)
        /\ last' = [id |-> id, op |-> "drop"]
        /\ UNCHANGED srcpos
  /\ lock' = Unlocked
  /\ UNCHANGED <<globvars, src, patterns, fullReads, bs, rep, cur, emitted,
                 groups, pc, outs>>

LockNext ==
  \E id \in 0..1 :
    \/ \E len \in 1..MaxBuf : LockAcquire(id, "read", len)
    \/ \E n \in (0 - 1)..MaxBuf : LockAcquire(id, "seek", n)
    \/ LockAcquire(id, "drop", 0)
    \/ LockSourceRead(id)
    \/ LockRelease(id)

LockSpec == LockInit /\ [][LockNext]_vars

-----------------------------------------------------------------------------
(* What the specification says of a stream, stated on the stream itself.   *)
(* Offsets are 0-based, as Diff.pos.                                       *)

RECURSIVE Replaced(_, _)
\* The stream s with each occurrence of p found by a left-to-right,
\* non-overlapping scan replaced by the replacement.
Replaced(s, p) ==
  IF Len(s) < Len(p) THEN s
  ELSE IF SubSeq(s, 1, Len(p)) = p
       THEN Replacement \o Replaced(SubSeq(s, Len(p) + 1, Len(s)), p)
       ELSE <<Head(s)>> \o Replaced(Tail(s), p)

\* p occurs in s at offset i.
MatchesAt(s, i, p) == i + Len(p) <= Len(s) /\ SubSeq(s, i + 1, i + Len(p)) = p

\* The offset of the first byte of the line that holds offset i.
LineStart(s, i) ==
  LET nls == {j \in 0..(i - 1) : j < Len(s) /\ s[j + 1] = NL}
  IN  IF nls = {} THEN 0 ELSE (CHOOSE j \in nls : \A k \in nls : k <= j) + 1

\* The column of offset i.
Column(s, i) == i - LineStart(s, i)

\* The offset of the first byte of the line after the one that holds offset
\* e - 1 (e is the end of a match), -1 when the stream has no further line.
NextLineStart(s, e) ==
  LET nls == {j \in e..(Len(s) - 1) : s[j + 1] = NL}
  IN  IF nls = {} THEN -1 ELSE (CHOOSE j \in nls : \A k \in nls : j <= k) + 1

\* Offset q is in the line that starts at offset ls.
OnLine(s, ls, q) == \A j \in ls..(q - 1) : j < Len(s) /\ s[j + 1] # NL

\* Part j + 1 of a block is aligned with part j: it starts on the line that
\* follows the line where part j ended, at the column of part j.
Aligned(s, from, len, to) ==
  LET ls == NextLineStart(s, from + len)
  IN  /\ ls # -1
      /\ to = ls + Column(s, from)
      /\ OnLine(s, ls, to)

RECURSIVE BlockFrom(_, _, _, _)
\* The parts ps[j..] occur on consecutive lines, part j at offset i, each at
\* the column of the part before it.
BlockFrom(s, ps, j, i) ==
  /\ MatchesAt(s, i, ps[j])
  /\ \/ j = Len(ps)
     \/ LET ls == NextLineStart(s, i + Len(ps[j]))
            q == ls + Column(s, i)
        IN  ls # -1 /\ OnLine(s, ls, q) /\ BlockFrom(s, ps, j + 1, q)

RECURSIVE BlockOffsets(_, _, _, _)
\* The offsets of the parts ps[j..] of the block whose part j is at offset i.
BlockOffsets(s, ps, j, i) ==
  IF j = Len(ps) THEN <<i>>
  ELSE <<i>> \o BlockOffsets(s, ps, j + 1, NextLineStart(s, i + Len(ps[j])) + Column(s, i))

\* The pattern sequence occurs in s with its first part at offset i.
OccursAt(s, ps, i) == BlockFrom(s, ps, 1, i)

Terminated == pc \in {"done", "end", "panic", "err"}

EmittedSet == {emitted[i] : i \in 1..Len(emitted)}

DiffAt(p, n) == [pos |-> p, remove |-> n, add |-> Replacement]

-----------------------------------------------------------------------------
(* GlobSpec: replace_glob and the replace_path of each of its threads      *)
(* (replacer/mod.rs:22-79).  Entry i of the glob has its own target path   *)
(* and temp path; a file on disk is whether it exists and its bytes.       *)

Absent == [exists |-> FALSE, content |-> << >>]

FileOf(c) == [exists |-> TRUE, content |-> c]

\* The contents drawn for the files: "a", "ba".
FileContents == {<<97>>, <<98, 97>>}

\* What the environment, or a fault of the scanner, does to the rewrite of a
\* file: nothing; the path has no string form; the temp path is taken; a read
\* or write fails in replace_stream; replace_stream panics; the rename fails.
Fates == {"none", "path_error", "temp_exists", "io_stream", "panic_stream", "io_rename"}

\* What a glob may yield: an enumeration error, a directory, a path that no
\* longer exists when it is opened, a file.
Entries ==
  {[kind |-> k, orig |-> << >>, fate |-> "none"] : k \in {"glob_error", "dir", "gone"}}
    \cup {[kind |-> "file", orig |-> c, fate |-> f] : c \in FileContents, f \in Fates}

\* The disk before the call, for one entry.
DiskOf(e) ==
  [target |-> IF e.kind = "file" THEN FileOf(e.orig) ELSE Absent,
   temp |-> IF e.fate = "temp_exists" THEN FileOf(<<122>>) ELSE Absent]

\* All the bytes replace_stream writes for a file of content c.
rewritten(c) == Replaced(c, patterns[1])

\* A rewrite that writes over the original.
stream_write_in_place(d, data) == [d EXCEPT !.target.content = @ \o data]

\* A write of replace_stream: its output is the temp file (replace_path).
stream_write(d, data) == [d EXCEPT !.temp.content = @ \o data]

\* A failure that removes the temp file it leaves behind.
fail_stream_cleanup(d) == [d EXCEPT !.temp = Absent]

\* replace_stream fails or panics: replace_path returns at once, the temp
\* file is closed and stays.
fail_stream(d) == d

\* fs::rename(temp_path, path): the target becomes the temp file.
rename(d) == [target |-> d.temp, temp |-> Absent]

\* A replace_path that creates the temp file before it opens the original.
step_after_temp_first(p) ==
  CASE p = "start" -> "create"
    [] p = "create" -> "open"
    [] p = "open" -> "stream"

\* The order of the steps of replace_path on a file: open the original,
\* create the temp file, run replace_stream.
step_after(p) ==
  CASE p = "start" -> "open"
    [] p = "open" -> "create"
    [] p = "create" -> "stream"

\* A join that does not wait for its thread.
unit_terminated_any(u) == TRUE

\* handle.join() returns once the thread has returned or panicked.
unit_terminated(u) == u.pc = "finished"

\* A join of the threads in the order they finish.
next_to_join_finished(results, finished) ==
  IF Len(finished) > Len(results) THEN finished[Len(results) + 1] ELSE Len(results) + 1

\* handles.into_iter(): the threads are joined in the order they were spawned.
next_to_join(results, finished) == Len(results) + 1

\* A join that hands the panic on as it is.
join_outcome_raw(o) == o

\* handle.join()?: the payload of a panic becomes Error::ThreadPanic.
join_outcome(o) == IF o = "panic" THEN "ThreadPanic" ELSE o

GlobInit ==
  /\ \E ok \in BOOLEAN :
       /\ dispatch = [NoDispatch EXCEPT !.phase = "glob", !.pattern_ok = ok]
       /\ paths \in (IF ok THEN SeqsUpTo(Entries, MaxEntries) ELSE {<< >>})
  /\ units = [i \in 1..Len(paths) |-> [pc |-> "unspawned", outcome |-> "none", created |-> FALSE]]
  /\ disk = [i \in 1..Len(paths) |-> DiskOf(paths[i])]
  /\ src = << >>
  /\ patterns = << <<97>> >>
  /\ fullReads = TRUE
  /\ pc = "glob"
  /\ Idle

\* glob::glob(file_glob)?: a malformed glob ends the call before any work.
GlobParse ==
  /\ dispatch.phase = "glob"
  /\ dispatch' = IF dispatch.pattern_ok
                 THEN [dispatch EXCEPT !.phase = "scope"]
                 ELSE [dispatch EXCEPT !.phase = "returned", !.value = "PatternError"]
  /\ UNCHANGED <<paths, units, disk, pipevars>>

\* scope.spawn for the next entry of the glob.
Spawn ==
  /\ dispatch.phase = "scope"
  /\ dispatch.spawned < Len(paths)
  /\ units' = [units EXCEPT ![dispatch.spawned + 1].pc = "start"]
  /\ dispatch' = [dispatch EXCEPT !.spawned = @ + 1]
  /\ UNCHANGED <<paths, disk, pipevars>>

\* Thread i returns outcome o (or panics).
Finish(i, o) ==
  /\ units' = [units EXCEPT ![i].pc = "finished", ![i].outcome = o]
  /\ dispatch' = [dispatch EXCEPT !.finished = Append(@, i)]

\* The closure of thread i up to the call of replace_path on a file.
UnitStart(i) ==
  /\ units[i].pc = "start"
  /\ IF paths[i].kind = "glob_error" THEN Finish(i, "GlobError")
     ELSE IF paths[i].kind = "dir" THEN Finish(i, "Ok")
     ELSE /\ units' = [units EXCEPT ![i].pc = step_after("start")]
          /\ UNCHANGED dispatch
  /\ UNCHANGED <<paths, disk, pipevars>>

\* File::open(&path)?
UnitOpen(i) ==
  /\ units[i].pc = "open"
  /\ IF ~disk[i].target.exists THEN Finish(i, "IoError")
     ELSE /\ units' = [units EXCEPT ![i].pc = step_after("open")]
          /\ UNCHANGED dispatch
  /\ UNCHANGED <<paths, disk, pipevars>>

\* temporary_path(&path)? and File::create_new(&temp_path)?
UnitCreate(i) ==
  /\ units[i].pc = "create"
  /\ IF paths[i].fate = "path_error" THEN Finish(i, "PathError") /\ UNCHANGED disk
     ELSE IF disk[i].temp.exists THEN Finish(i, "IoError") /\ UNCHANGED disk
     ELSE /\ disk' = [disk EXCEPT ![i].temp = FileOf(<< >>)]
          /\ units' = [units EXCEPT ![i].pc = step_after("create"), ![i].created = TRUE]
          /\ UNCHANGED dispatch
  /\ UNCHANGED <<paths, pipevars>>

\* replace_stream writes some more of its output.
UnitWrite(i) ==
  /\ units[i].pc = "stream"
  /\ LET final == rewritten(paths[i].orig)
         w == Len(disk[i].temp.content)
     IN  \E k \in 1..(Len(final) - w) :
           disk' = [disk EXCEPT ![i] = stream_write(@, SubSeq(final, w + 1, w + k))]
  /\ UNCHANGED <<paths, units, dispatch, pipevars>>

\* replace_stream returns Ok(()).
UnitStreamDone(i) ==
  /\ units[i].pc = "stream"
  /\ paths[i].fate \notin {"io_stream", "panic_stream"}
  /\ Len(disk[i].temp.content) = Len(rewritten(paths[i].orig))
  /\ units' = [units EXCEPT ![i].pc = "rename"]
  /\ UNCHANGED <<paths, disk, dispatch, pipevars>>

\* replace_stream returns an error, or panics.
UnitStreamFail(i) ==
  /\ units[i].pc = "stream"
  /\ paths[i].fate \in {"io_stream", "panic_stream"}
  /\ disk' = [disk EXCEPT ![i] = fail_stream(@)]
  /\ Finish(i, IF paths[i].fate = "io_stream" THEN "IoError" ELSE "panic")
  /\ UNCHANGED <<paths, pipevars>>

\* fs::rename(temp_path, &path) and the result of replace_path.
UnitRename(i) ==
  /\ units[i].pc = "rename"
  /\ IF paths[i].fate = "io_rename" THEN Finish(i, "IoError") /\ UNCHANGED disk
     ELSE disk' = [disk EXCEPT ![i] = rename(@)] /\ Finish(i, "Ok")
  /\ UNCHANGED <<paths, pipevars>>

\* handle.join()? on the next handle, once every entry has its thread.
Join ==
  /\ dispatch.phase = "scope"
  /\ dispatch.spawned = Len(paths)
  /\ Len(dispatch.results) < Len(paths)
  /\ LET i == next_to_join(dispatch.results, dispatch.finished)
     IN  /\ unit_terminated(units[i])
         /\ dispatch' = [dispatch EXCEPT !.results =
                           Append(@, [unit |-> i, value |-> join_outcome(units[i].outcome)])]
  /\ UNCHANGED <<paths, units, disk, pipevars>>

\* thread::scope returns and replace_glob returns Ok(results).
Return ==
  /\ dispatch.phase = "scope"
  /\ dispatch.spawned = Len(paths)
  /\ Len(dispatch.results) = Len(paths)
  /\ dispatch' = [dispatch EXCEPT !.phase = "returned", !.value = "Ok"]
  /\ UNCHANGED <<paths, units, disk, pipevars>>

GlobNext ==
  \/ GlobParse
  \/ Spawn
  \/ Join
  \/ Return
  \/ \E i \in 1..Len(paths) :
       \/ UnitStart(i)
       \/ UnitOpen(i)
       \/ UnitCreate(i)
       \/ UnitWrite(i)
       \/ UnitStreamDone(i)
       \/ UnitStreamFail(i)
       \/ UnitRename(i)

GlobSpec == GlobInit /\ [][GlobNext]_vars

\* What the thread of entry e returns when it runs alone.
OutcomeAlone(e) ==
  CASE e.kind = "glob_error" -> "GlobError"
    [] e.kind = "dir" -> "Ok"
    [] e.kind = "gone" -> "IoError"
    [] e.kind = "file" /\ e.fate = "none" -> "Ok"
    [] e.kind = "file" /\ e.fate = "path_error" -> "PathError"
    [] e.kind = "file" /\ e.fate = "panic_stream" -> "ThreadPanic"
    [] OTHER -> "IoError"

Returned == dispatch.phase = "returned" /\ dispatch.value = "Ok"

-----------------------------------------------------------------------------
(* The claims *)

\* C1: for a single pattern no longer than SEARCH_MAX and a source that fills
\* its reads, replace_stream neither panics nor fails, and when it returns the
\* output is the input with each occurrence found by a left-to-right,
\* non-overlapping scan replaced once, every other byte copied in order.
C1_SinglePatternReplaced ==
  (Len(patterns) = 1 /\ Len(patterns[1]) <= SEARCH_MAX /\ fullReads) =>
    /\ pc \notin {"panic", "err"}
    /\ pc = "done" => rep.out = Replaced(src, patterns[1])

\* C1 witness: a finished run that replaced two occurrences, copied bytes
\* around them and compacted the scan buffer on the way.
C1_Witness ==
  /\ pc = "done"
  /\ Len(patterns) = 1
  /\ Len(emitted) >= 2
  /\ emitted[1].pos > 0
  /\ bs.pos > 0
  /\ rep.out = Replaced(src, patterns[1])
  /\ Len(rep.out) > Len(emitted) * Len(Replacement)

\* C2: when the stream holds no occurrence of the pattern sequence, what
\* replace_stream has written when it returns is the input, byte for byte.
C2_NoMatchIdentity ==
  (pc = "done" /\ \A i \in 0..(Len(src) - 1) : ~OccursAt(src, patterns, i))
    => rep.out = src


\* C3: the Diffs yielded by successive next calls are strictly increasing in
\* pos and do not overlap: pos[i] + remove[i] <= pos[i+1].
C3_DiffsIncreasing ==
  \A i \in 1..(Len(emitted) - 1) : emitted[i].pos + emitted[i].remove <= emitted[i + 1].pos

\* C4: whatever the interleaving and the buffer sizes, the bytes the reads of
\* a cursor returned are the source's bytes in order, and once a read has
\* returned 0 they are the whole source.
C4_TeeEquivalence ==
  \A i \in 0..1 : ~outs[i].sought =>
    /\ outs[i].bytes = SubSeq(src, 1, Len(outs[i].bytes))
    /\ outs[i].hitEnd => outs[i].bytes = src

\* C4 witness: both cursors have read a source of the greatest length to its
\* end, the second of them served from the buffer and then from the source.
C4_Witness ==
  /\ Len(src) = MaxTeeLen
  /\ \A i \in 0..1 : ~outs[i].sought /\ outs[i].hitEnd /\ outs[i].bytes = src
  /\ tee.active[0] /\ tee.active[1]

\* C5: while both cursors are live, after every read or seek the shared buffer
\* holds exactly the source bytes in [min(pos0,pos1), max(pos0,pos1)) and
\* global_offset is min(pos0,pos1).
C5_BufferIsTheLag ==
  (tee.active[0] /\ tee.active[1]) =>
    LET lo == Min(tee.pos[0], tee.pos[1])
        hi == IF tee.pos[0] > tee.pos[1] THEN tee.pos[0] ELSE tee.pos[1]
    IN  /\ tee.global_offset = lo
        /\ tee.buffer = SubSeq(src, lo + 1, hi)
        /\ Len(tee.buffer) = hi - lo

\* C5 witness: after a seek, with both cursors live, the buffer has been
\* trimmed and still holds the bytes between the two positions.
C5_Witness ==
  /\ tee.active[0] /\ tee.active[1]
  /\ last.op = "seek"
  /\ tee.global_offset > 0
  /\ Len(tee.buffer) >= 2
  /\ tee.pos[last.id] > tee.pos[1 - last.id]

\* C6: during a run of replace_stream the tee's shared buffer never holds more
\* than SEARCH_MAX bytes.
C6_TeeBufferBounded == Len(tee.buffer) <= SEARCH_MAX

\* C7: when the parts of a block pattern occur on consecutive lines at the same
\* column c <= COLUMN_MAX, the drained BufSearcher has emitted one Diff per
\* part, at the part's offset, removing the part's length, adding the replacement.
C7_BlockComplete ==
  (pc = "end" /\ fullReads /\ Len(patterns) >= 2) =>
    \A i \in 0..(Len(src) - 1) :
      (OccursAt(src, patterns, i) /\ Column(src, i) <= COLUMN_MAX) =>
        LET offs == BlockOffsets(src, patterns, 1, i)
        IN  \A j \in 1..Len(patterns) : DiffAt(offs[j], Len(patterns[j])) \in EmittedSet

\* C8: in every group of Diffs read_diffs returns, the Diff of part i+1 starts
\* on the line that follows the line where part i ended, at the column of part i.
C8_BlockAligned ==
  \A g \in 1..Len(groups) : \A j \in 1..(Len(groups[g]) - 1) :
    Aligned(src, groups[g][j].pos, groups[g][j].remove, groups[g][j + 1].pos)

\* C9: no group of a block pattern is matched with its first part at a column
\* greater than COLUMN_MAX.
C9_ColumnBound ==
  \A g \in 1..Len(groups) :
    Len(groups[g]) >= 2 => Column(src, groups[g][1].pos) <= COLUMN_MAX

\* C10: a pattern as long as the scan buffer that occurs twice, separated by
\* unrelated bytes, is matched at offset 0 and at capacity + gap (the buffer
\* has been compacted by then), and both occurrences are replaced.
C10_CapacityPatternTwice ==
  (patterns = <<CapPattern>> /\ src \in CapStreams) =>
    /\ pc \notin {"panic", "err"}
    /\ Len(emitted) <= 2
    /\ Len(emitted) >= 1 => emitted[1] = DiffAt(0, SEARCH_MAX)
    /\ Len(emitted) = 2 => /\ emitted[2] = DiffAt(Len(src) - SEARCH_MAX, SEARCH_MAX)
                           /\ bs.pos > 0
    /\ pc = "done" => /\ Len(emitted) = 2
                      /\ rep.out = Replacement
                                   \o SubSeq(src, SEARCH_MAX + 1, Len(src) - SEARCH_MAX)
                                   \o Replacement

\* C10 witness: the run over the longest such stream has returned with both
\* Diffs emitted.
C10_Witness ==
  /\ pc = "done"
  /\ patterns = <<CapPattern>>
  /\ Len(src) = 2 * SEARCH_MAX + MaxGap
  /\ Len(emitted) = 2
  /\ bs.pos > 0

\* C11: when a pattern is longer than SEARCH_MAX the search signals
\* BadPattern: it yields no Diff and does not end the sequence normally.
C11_BadPatternSignalled ==
  (\E i \in 1..Len(patterns) : Len(patterns[i]) > SEARCH_MAX) =>
    (emitted = << >> /\ pc # "end")

\* C12: for patterns that each fit the scan buffer, the Diff sequence is
\* finite and ends with end-of-sequence: when no further call of next is in
\* progress or possible (pc is not "next"), next has returned end-of-sequence.
C12_DiffSequenceEnds ==
  ((\A i \in 1..Len(patterns) : Len(patterns[i]) <= SEARCH_MAX) /\ pc # "next")
    => pc = "end"

\* C13: when replace_glob returns, it holds exactly one outcome per entry of
\* the glob, and the i-th outcome is that of the thread of the i-th entry,
\* whatever the order in which the threads finished.
C13_OutcomesInGlobOrder ==
  Returned =>
    /\ Len(dispatch.results) = Len(paths)
    /\ \A i \in 1..Len(dispatch.results) : dispatch.results[i].unit = i

\* C13 witness: replace_glob has returned the outcomes of as many entries as
\* a glob yields here, and the thread of the first entry was not the first to
\* finish.
C13_Witness ==
  /\ Returned
  /\ Len(paths) = MaxEntries
  /\ Len(dispatch.results) = MaxEntries
  /\ dispatch.finished[1] # 1

\* C14: when a thread fails or panics, only its slot holds an error (a panic
\* is ThreadPanic), every sibling has the outcome and the effect on its file
\* it would have had alone, and replace_glob returns Ok.
C14_FailureIsolated ==
  Returned =>
    \A i \in 1..Len(paths) :
      /\ i <= Len(dispatch.results)
      /\ dispatch.results[i].value = OutcomeAlone(paths[i])
      /\ (paths[i].kind = "file" /\ paths[i].fate = "none") =>
           disk[i] = [target |-> FileOf(rewritten(paths[i].orig)), temp |-> Absent]

\* C14 witness: replace_glob has returned; one thread panicked, and a sibling
\* that finished after it rewrote its file.
C14_Witness ==
  /\ Returned
  /\ \E i, j \in 1..Len(dispatch.results) :
       /\ dispatch.results[i].value = "ThreadPanic"
       /\ dispatch.finished[1] = i
       /\ dispatch.results[j].value = "Ok"
       /\ paths[j].kind = "file"
       /\ disk[j].target.content = rewritten(paths[j].orig)

\* C15: when replace_glob returns, every thread it spawned has terminated.
C15_AllUnitsTerminated ==
  dispatch.phase = "returned" => \A i \in 1..Len(units) : units[i].pc = "finished"

\* C15 witness: replace_glob has returned after every thread renamed its file.
C15_Witness ==
  /\ dispatch.phase = "returned"
  /\ Len(units) = MaxEntries
  /\ \A i \in 1..Len(units) : paths[i].kind = "file" /\ units[i].outcome = "Ok"

\* C16: at every instant of a rewrite the target path holds the whole original
\* content or, once the rename has been done, the whole rewritten content.
C16_TargetWholeAtAllTimes ==
  \A i \in 1..Len(paths) :
    paths[i].kind = "file" =>
      /\ disk[i].target.exists
      /\ \/ disk[i].target.content = paths[i].orig
         \/ /\ disk[i].target.content = rewritten(paths[i].orig)
            /\ units[i].outcome = "Ok"

\* C16 witness: a rewrite that will succeed has written part of its output,
\* and the target still holds the original.
C16_Witness ==
  \E i \in 1..Len(paths) :
    /\ units[i].pc = "stream"
    /\ paths[i].fate = "none"
    /\ Len(disk[i].temp.content) > 0
    /\ Len(disk[i].temp.content) < Len(rewritten(paths[i].orig))
    /\ disk[i].target.content = paths[i].orig

\* C17: when a rewrite fails before the rename, the target is as it was, the
\* thread's outcome is the error, and the temp file it created is on disk.
C17_FailureLeavesOriginal ==
  \A i \in 1..Len(paths) :
    (units[i].pc = "finished" /\ units[i].outcome \notin {"Ok", "panic"}
       /\ paths[i].fate # "io_rename") =>
      /\ disk[i].target = DiskOf(paths[i]).target
      /\ units[i].outcome = OutcomeAlone(paths[i])
      /\ units[i].created => disk[i].temp.exists

\* C17 witness: a rewrite failed in replace_stream after writing; the original
\* is untouched and the temp file holds what was written.
C17_Witness ==
  \E i \in 1..Len(paths) :
    /\ units[i].pc = "finished"
    /\ units[i].outcome = "IoError"
    /\ paths[i].fate = "io_stream"
    /\ units[i].created
    /\ Len(disk[i].temp.content) > 0
    /\ disk[i].target = FileOf(paths[i].orig)

\* C18: for a path that does not exist the outcome is IoError and no temp
\* file is ever created.
C18_MissingPathNoTemp ==
  \A i \in 1..Len(paths) :
    paths[i].kind = "gone" =>
      /\ ~disk[i].temp.exists
      /\ ~units[i].created
      /\ units[i].pc = "finished" => units[i].outcome = "IoError"

\* C18 witness: the thread of a missing path has returned IoError, and
\* replace_glob has returned it in that path's slot.
C18_Witness ==
  /\ Returned
  /\ \E i \in 1..Len(dispatch.results) :
       /\ paths[i].kind = "gone"
       /\ dispatch.results[i].value = "IoError"
       /\ ~disk[i].temp.exists

\* C19: a seek of a tee cursor that is backward-relative, from the start or
\* from the end fails with Unsupported and leaves the buffer, global_offset,
\* both positions and the source untouched.
C19_UnsupportedSeekChangesNothing ==
  [][(\E id \in 0..1 :
        \/ TeeSeekStep(id, "Current", 0 - 1)
        \/ \E whence \in {"Start", "End"} : TeeSeekStep(id, whence, 0))
      => (last'.op = "seek_unsupported" /\ tee' = tee /\ srcpos' = srcpos)]_vars

\* C19 witness: an unsupported seek has just failed on a cursor that is ahead
\* of its sibling, with bytes buffered and the buffer's front trimmed before.
C19_Witness ==
  /\ last.op = "seek_unsupported"
  /\ tee.active[0] /\ tee.active[1]
  /\ Len(tee.buffer) > 0
  /\ tee.global_offset > 0
  /\ tee.pos[last.id] > tee.pos[1 - last.id]

\* C20: once one cursor is released, the buffer holds no byte before the
\* survivor's position (none at all when the survivor is the most advanced),
\* and the survivor still reads the rest of the source in order.
C20_SurvivorAfterRelease ==
  \A s \in 0..1 :
    (tee.active[s] /\ ~tee.active[1 - s]) =>
      /\ tee.global_offset = tee.pos[s]
      /\ tee.pos[s] >= tee.pos[1 - s] => tee.buffer = << >>
      /\ tee.buffer = SubSeq(src, tee.pos[s] + 1, tee.pos[s] + Len(tee.buffer))
      /\ ~outs[s].sought =>
           /\ outs[s].bytes = SubSeq(src, 1, tee.pos[s])
           /\ outs[s].hitEnd => outs[s].bytes = src

\* C20 witness: the sibling was released part of the way while it lagged, and
\* the survivor has since read the source to its end.
C20_Witness ==
  \E s \in 0..1 :
    /\ tee.active[s] /\ ~tee.active[1 - s]
    /\ Len(src) = MaxTeeLen
    /\ tee.pos[1 - s] > 0
    /\ tee.pos[1 - s] < Len(src)
    /\ ~outs[s].sought
    /\ outs[s].hitEnd
    /\ outs[s].bytes = src
    /\ last = [id |-> s, op |-> "read"]

\* C21: replace_stream never returns Err(EndOfIteration); when the Diff
\* sequence is exhausted it returns Ok(()) after the Replacer has copied all
\* the original bytes that remained behind its position to the output.
C21_EndOfIterationIsOk ==
  /\ pc # "EndOfIteration"
  /\ pc = "done" =>
       /\ tee.pos[1] = Len(src)
       /\ rep.pos <= Len(src)
       /\ Len(rep.out) >= Len(src) - rep.pos
       /\ SubSeq(rep.out, Len(rep.out) - (Len(src) - rep.pos) + 1, Len(rep.out))
            = SubSeq(src, rep.pos + 1, Len(src))

\* C21 witness: replace_stream has returned Ok(()) after a replacement, with
\* original bytes left to copy behind the last Diff.
C21_Witness ==
  /\ pc = "done"
  /\ Len(emitted) = 1
  /\ rep.pos = emitted[1].pos + emitted[1].remove
  /\ Len(src) - rep.pos >= 2
  /\ bs.ready = << >>

PatternsFit == \A i \in 1..Len(patterns) : Len(patterns[i]) <= SEARCH_MAX

\* The absolute offset of the scan position.
ScanPos(b) == b.pos + b.drop_head

\* The bytes buffered and not yet dropped.
Unconsumed(b) == [i \in 1..(b.read_head - b.drop_head) |-> b.buf[b.drop_head + i - 1]]

\* C22: the Diff sequence ends only when the source is exhausted: a read that
\* returns fewer bytes than asked while more remain does not end the scan.
C22_EndsOnlyAtEndOfSource ==
  (pc = "end" /\ PatternsFit) => srcpos = Len(src)

\* C23: drop_head <= read_head <= SEARCH_MAX after every step of the scan, and
\* after the compaction and the fill that the next step may start with.
C23_HeadsInOrder ==
  /\ 0 <= bs.drop_head /\ bs.drop_head <= bs.read_head /\ bs.read_head <= SEARCH_MAX
  /\ LET c == compress_buffer(bs)
     IN  0 <= c.drop_head /\ c.drop_head <= c.read_head /\ c.read_head <= SEARCH_MAX
  /\ LET f == fill_prepare(bs)
     IN  \A n \in ReadSizes(SEARCH_MAX - f.read_head, srcpos) :
           LET g == fill_store(f, SubSeq(src, srcpos + 1, srcpos + n))
           IN  g.drop_head <= g.read_head /\ g.read_head <= SEARCH_MAX

\* C23 witness: the scan has compacted its buffer, refilled it to capacity and
\* dropped bytes of it, and goes on.
C23_Witness ==
  /\ bs.pos > 0
  /\ bs.read_head = SEARCH_MAX
  /\ bs.drop_head > 0
  /\ pc = "next"

\* C24: last_line_start is the column of the scan position (its distance from
\* the byte after the last newline before it, or from the stream's start), the
\* unconsumed bytes are the stream's bytes from the scan position, and a
\* compaction changes neither of them nor the scan position.
C24_ColumnTracked ==
  /\ bs.last_line_start = Column(src, ScanPos(bs))
  /\ Unconsumed(bs) = SubSeq(src, ScanPos(bs) + 1, bs.pos + bs.read_head)
  /\ LET c == compress_buffer(bs)
     IN  /\ ScanPos(c) = ScanPos(bs)
         /\ c.last_line_start = bs.last_line_start
         /\ Unconsumed(c) = Unconsumed(bs)

\* C24 witness: after a compaction the scan stands in the middle of a line
\* that is not the first, with bytes still to consume.
C24_Witness ==
  /\ bs.pos > 0
  /\ bs.drop_head > 0
  /\ bs.last_line_start > 0
  /\ LineStart(src, ScanPos(bs)) > 0
  /\ bs.read_head > bs.drop_head

\* The Diffs yielded so far are ascending and do not overlap.
AscendingSoFar ==
  \A i \in 1..(Len(emitted) - 1) : emitted[i].pos + emitted[i].remove <= emitted[i + 1].pos

\* C25: between the steps of the Replacer its pos is the offset the trailing
\* cursor reads next; and when the Diffs came in ascending non-overlapping
\* order, pos is the end of the Diff before, so the gap to the Diff in hand
\* is not negative and is the untouched span between the two.
C25_ReplacerPosIsCursor ==
  /\ pc \in {"next", "apply", "remaining"} => rep.pos = tee.pos[1]
  /\ (pc = "apply" /\ AscendingSoFar) =>
       LET n == Len(emitted)
           before == IF n = 1 THEN 0 ELSE emitted[n - 1].pos + emitted[n - 1].remove
       IN  /\ cur = emitted[n]
           /\ rep.pos = before
           /\ gap_length(cur, rep) >= 0
           /\ gap_length(cur, rep) = cur.pos - before

\* C25 witness: the Replacer holds its second Diff, has replaced the first and
\* is about to copy a gap that is not empty.
C25_Witness ==
  /\ pc = "apply"
  /\ Len(emitted) = 2
  /\ AscendingSoFar
  /\ rep.pos = tee.pos[1]
  /\ rep.pos > 0
  /\ gap_length(cur, rep) > 0

\* C26: a scan step that goes on either found no group, and then yields and
\* queues nothing and moves the scan position by one byte, or matched every
\* part, and then yields the first part's Diff, queues the Diffs of all the
\* other parts and moves the scan position by the first pattern's length.
C26_GroupAllOrNothing ==
  [][(SearchStep /\ pc' = "next") =>
       \/ /\ emitted' = emitted
          /\ groups' = groups
          /\ bs'.ready = bs.ready
          /\ ScanPos(bs') = ScanPos(bs) + 1
       \/ /\ Len(groups') = Len(groups) + 1
          /\ LET g == groups'[Len(groups')]
             IN  /\ Len(g) = Len(patterns)
                 /\ \A j \in 1..Len(g) : g[j].remove = Len(patterns[j])
                 /\ emitted' = Append(emitted, g[1])
                 /\ bs'.ready = Tail(g)
          /\ ScanPos(bs') = ScanPos(bs) + Len(patterns[1])]_vars

\* C26 witness: after misses, a block of three parts has matched; its first
\* Diff is yielded and the two others wait in the heap.
C26_Witness ==
  /\ pc = "next"
  /\ Len(patterns) = 3
  /\ Len(groups) = 1
  /\ groups[1][1].pos > 0
  /\ emitted = <<groups[1][1]>>
  /\ Len(bs.ready) = 2

\* C27: the guard of the tee's Mutex is held for one read, seek or drop of
\* one cursor at a time, and no read of the underlying source is in progress
\* while a guard is held.
C27_NoLockAcrossSourceRead ==
  /\ lock.holder \in {0 - 1, 0, 1}
  /\ lock.holder = 0 - 1 <=> lock.op = "none"
  /\ lock.in_source => lock.holder = 0 - 1

\* C28: the ready heap never holds two Diffs with the same pos, and the Diff
\* that next() returns has a pos smaller than every Diff left in the heap; when
\* it came out of a non-empty heap it is one of that heap's Diffs, the one of
\* smallest pos, and the others stay.
C28_ReadyOrderedByPos ==
  [][/\ \A i, j \in 1..Len(bs'.ready) :
          i < j => bs'.ready[i].pos # bs'.ready[j].pos
     /\ Len(emitted') > Len(emitted) =>
          LET d == emitted'[Len(emitted')]
          IN  /\ \A i \in 1..Len(bs'.ready) : d.pos < bs'.ready[i].pos
              /\ bs.ready # << >> =>
                   /\ \E i \in 1..Len(bs.ready) : bs.ready[i] = d
                   /\ \A i \in 1..Len(bs.ready) : d.pos <= bs.ready[i].pos
                   /\ {bs'.ready[i] : i \in 1..Len(bs'.ready)}
                        = {bs.ready[i] : i \in 1..Len(bs.ready)} \ {d}]_vars

\* C28 witness: a block of three parts matched; the first Diff was returned at
\* once, the second was popped from the heap and the third is still queued.
C28_Witness ==
  /\ Len(patterns) = 3
  /\ Len(emitted) = 2
  /\ Len(bs.ready) = 1
  /\ emitted[1].pos < emitted[2].pos
  /\ emitted[2].pos < bs.ready[1].pos

\* C29: every Diff that BufSearcher has emitted lies inside the stream: its
\* removed span ends at or before the end of the source, so that it was matched
\* against bytes read from the source and not against bytes past read_head.
C29_DiffsInsideStream ==
  \A i \in 1..Len(emitted) : emitted[i].pos + emitted[i].remove <= Len(src)

\* C30: for patterns that each fit the capacity, no call of next aborts on an
\* index outside the scan buffer (the slice of match_one_pattern, the index of
\* drop).
C30_BufferAccessInBounds == PatternsFit => pc # "panic"

=============================================================================
